---- MODULE Spec2Model ----
(***************************************************************************)
(* Model of the picklist packer of generate_picklists.py.                  *)
(*                                                                         *)
(* generate_picklists(df) sorts the normalized rows, splits them into the  *)
(* normal and the fragile frame, and runs process_zone once per zone of    *)
(* each frame.  process_zone fills one open bin greedily under a unit cap  *)
(* and a weight cap and flushes it to a CSV file and a summary row.        *)
(*                                                                         *)
(* One step of the model is one pass of a loop of the program: one         *)
(* iteration of `while remaining > 0`, one advance of the `for row` loop,  *)
(* one call of process_zone, the final flush of a zone, the final write of *)
(* Summary.csv.                                                            *)
(*                                                                         *)
(* Weights.  The program holds weights as Python floats (binary64), in kg. *)
(* The model holds a weight as a record [g, u]: g is the exact decimal     *)
(* value in grams, u is the rounding residue of the binary64 value, in     *)
(* units in the last place (one ulp of a value in [128, 256) kg is         *)
(* 2^-45 kg).  Values that are multiples of 125 g (1/8 kg) are dyadic and  *)
(* are added without rounding; any other `cur_weight += take * unit_wt`    *)
(* rounds, and the model lets the stored sum land one ulp below, on, or    *)
(* one ulp above the decimal value.  Comparisons and the truncating        *)
(* division read a weight as g grams plus u infinitesimals: the quotient   *)
(* is the one of the decimal values unless the residue decides it.         *)
(***************************************************************************)
EXTENDS Integers, Sequences, FiniteSets, TLC

(* ----------------------------- bounds ---------------------------------- *)
\* number of rows of the input frame
MaxItems == 2

(* ------------------------- program constants --------------------------- *)
PICKLIST_UNIT_CAP == 2000
\* 200.0 kg, in grams
PICKLIST_WEIGHT_CAP == 200000
\* 50.0 kg, in grams
FRAGILE_WEIGHT_CAP == 50000
\* the 1e-6 kg of `assert cur_weight <= cap_weight + 1e-6`, in ulps of 2^-45 kg
TolUlp == 35184372
\* multiples of 125 g are multiples of 1/8 kg: exactly representable
DyadicGrams == 125
\* datetime.now().date(): one value for the whole run
Today == "date"

(* ------------------------------ floats --------------------------------- *)
Flt(g, u) == [g |-> g, u |-> u]

\* cap_weight - cur_weight
FSub(cap, x) == Flt(cap - x.g, 0 - x.u)

\* x <= 0
FLeqZero(x) == x.g < 0 \/ (x.g = 0 /\ x.u <= 0)

\* x <= c for a dyadic c
FLeq(x, c) == x.g < c \/ (x.g = c /\ x.u <= 0)

\* x < w for a unit weight w
FLess(x, w) == x.g < w \/ (x.g = w /\ x.u < 0)

\* x <= c + 1e-6
FLeqTol(x, c) == x.g < c \/ (x.g = c /\ x.u <= TolUlp)

\* the float is exactly the decimal value
IsExact(x) == x.u = 0 /\ x.g % DyadicGrams = 0

\* a quotient that is a whole number is truncated to one less
FloorDivStrict(x, w) == (x.g - 1) \div w

\* int(x / w) for w > 0 and x > 0
FloorDiv(x, w) ==
    IF x.g % w = 0 /\ x.u < 0 THEN (x.g \div w) - 1 ELSE x.g \div w

\* the values cur_weight + take * unit_wt can round to
FAddMul(x, take, w) ==
    IF IsExact(x) /\ w % DyadicGrams = 0
    THEN {Flt(x.g + take * w, 0)}
    ELSE {Flt(x.g + take * w, x.u + d) : d \in {-1, 0, 1}}

Min(a, b) == IF a <= b THEN a ELSE b

(* ------------------------------- rows ---------------------------------- *)
\* A row of the normalized frame.  ix is the frame's index label, which
\* sort_values and the boolean masks carry along; _store and _binrank are
\* copied into the pick line unread and are left out.
Row(ix, zone, fragile, order, cutoff, priority, sku, bin, qty, weight) ==
    [ix |-> ix, zone |-> zone, fragile |-> fragile, order |-> order,
     cutoff |-> cutoff, priority |-> priority, sku |-> sku, bin |-> bin,
     qty |-> qty, weight |-> weight]

\* (quantity, unit weight in grams) of the products of the capacity runs
Products ==
    { [sku |-> "s1", bin |-> "b1", qty |-> 0,    weight |-> 2500],
      [sku |-> "s2", bin |-> "b2", qty |-> 1,    weight |-> 0],
      [sku |-> "s3", bin |-> "b1", qty |-> 2500, weight |-> 0],
      [sku |-> "s4", bin |-> "b2", qty |-> 80,   weight |-> 2500],
      [sku |-> "s5", bin |-> "b1", qty |-> 1,    weight |-> 1100],
      [sku |-> "s6", bin |-> "b2", qty |-> 4,    weight |-> 16300],
      [sku |-> "s7", bin |-> "b1", qty |-> 1,    weight |-> 50000],
      [sku |-> "s8", bin |-> "b2", qty |-> 4,    weight |-> 60000] }

Orders == {1, 2}
Zones == {"A", "B"}
\* the zone values in ascending order, as groupby yields them
ZoneSeq == <<"A", "B">>
Cutoffs == {1, 2}
Priorities == {1, 2}

\* rows of one zone and one cutoff: products, orders and fragility vary
CapacityRows ==
    { [p |-> p, fragile |-> f, order |-> o] :
        p \in Products, f \in BOOLEAN, o \in Orders }

MkCapacityRow(i, c) ==
    Row(i, "A", c.fragile, c.order, 1, 1, c.p.sku, c.p.bin, c.p.qty, c.p.weight)

\* one unit per row, 30 kg for order 1 and 50 kg for order 2: zone, fragility
\* and sort key vary
GroupRowChoices ==
    { [zone |-> z, fragile |-> f, order |-> o, cutoff |-> c, priority |-> p] :
        z \in Zones, f \in BOOLEAN, o \in Orders, c \in Cutoffs, p \in Priorities }

MkGroupRow(i, c) ==
    Row(i, c.zone, c.fragile, c.order, c.cutoff, c.priority,
        IF c.order = 1 THEN "s9" ELSE "s7",
        IF c.zone = "A" THEN "b1" ELSE "b2",
        1, IF c.order = 1 THEN 30000 ELSE 50000)

CapacityInputs ==
    UNION { { [i \in 1..n |-> MkCapacityRow(i, f[i])] : f \in [1..n -> CapacityRows] } :
            n \in 0..MaxItems }

\* the capacity rows of order 1
FairInputs ==
    UNION { { [i \in 1..n |-> MkCapacityRow(i, f[i])] :
                f \in [1..n -> { c \in CapacityRows : c.order = 1 }] } :
            n \in 0..MaxItems }

GroupInputs ==
    UNION { { [i \in 1..n |-> MkGroupRow(i, f[i])] : f \in [1..n -> GroupRowChoices] } :
            n \in 0..MaxItems }

(* ------------------------- sort and grouping --------------------------- *)
\* priority sorted before cutoff
KeyLessPriorityFirst(a, b) ==
    \/ a.priority < b.priority
    \/ a.priority = b.priority /\ a.cutoff < b.cutoff
    \/ a.priority = b.priority /\ a.cutoff = b.cutoff /\ a.order < b.order

\* row a sorts strictly before row b under by=["_cutoff","_priority","_order"]
KeyLess(a, b) ==
    \/ a.cutoff < b.cutoff
    \/ a.cutoff = b.cutoff /\ a.priority < b.priority
    \/ a.cutoff = b.cutoff /\ a.priority = b.priority /\ a.order < b.order

\* r put behind every row of the sorted s that does not sort after it
RECURSIVE InsertRow(_, _)
InsertRow(s, r) ==
    IF s = <<>> THEN <<r>>
    ELSE IF KeyLess(r, s[Len(s)])
         THEN Append(InsertRow(SubSeq(s, 1, Len(s) - 1), r), s[Len(s)])
         ELSE Append(s, r)

\* df.sort_values(by=[...]): stable on equal keys
RECURSIVE SortValues(_)
SortValues(s) ==
    IF s = <<>> THEN <<>>
    ELSE InsertRow(SortValues(SubSeq(s, 1, Len(s) - 1)), s[Len(s)])

\* the fragile mask is not applied
GroupRowsAnyFragility(frame, z, f) ==
    SelectSeq(frame, LAMBDA r : r.zone = z)

\* df[df["_fragile"]] or df[~df["_fragile"]], then the rows of one zone
GroupRows(frame, z, f) ==
    SelectSeq(frame, LAMBDA r : r.zone = z /\ r.fragile = f)

\* the (zone, fragile) calls of process_zone, in call order
GroupKeys(frame) ==
    LET keys(f) == SelectSeq([i \in 1..Len(ZoneSeq) |-> [zone |-> ZoneSeq[i], fragile |-> f]],
                             LAMBDA k : GroupRows(frame, k.zone, k.fragile) # <<>>)
    IN  keys(FALSE) \o keys(TRUE)

(* ------------------------------- state --------------------------------- *)
VARIABLES
    input,            \* the frame handed to generate_picklists
    pc,               \* "start", "zones", "fill", "done", "raised"
    df,               \* the sorted frame
    pending,          \* the process_zone calls still to make
    zone, fragile,    \* arguments of the running process_zone
    rows,             \* rows of the group the for loop has not taken yet
    row,              \* the row of the for loop
    remaining, unit_wt,
    cur_units, cur_weight, items, orders, bins, pl_no,
    total_picklists,
    summary,          \* the summary rows appended so far
    written,          \* the to_csv calls of flush, in order: file name and payload
    summary_csv       \* rows of Summary.csv once written

vars == <<input, pc, df, pending, zone, fragile, rows, row, remaining, unit_wt,
          cur_units, cur_weight, items, orders, bins, pl_no, total_picklists,
          summary, written, summary_csv>>

bin_state == <<cur_units, cur_weight, items, orders, bins, pl_no>>
out_state == <<total_picklists, summary, written>>

NoRow == Row(0, "", FALSE, 0, 0, 0, "", "", 0, 0)

InitWith(inputs) ==
    /\ input \in inputs
    /\ pc = "start"
    /\ df = <<>>
    /\ pending = <<>>
    /\ zone = ""
    /\ fragile = FALSE
    /\ rows = <<>>
    /\ row = NoRow
    /\ remaining = 0
    /\ unit_wt = 0
    /\ cur_units = 0
    /\ cur_weight = Flt(0, 0)
    /\ items = <<>>
    /\ orders = {}
    /\ bins = {}
    /\ pl_no = 0
    /\ total_picklists = 0
    /\ summary = <<>>
    /\ written = <<>>
    /\ summary_csv = <<>>

Init == InitWith(CapacityInputs)

InitGroups == InitWith(GroupInputs)

InitFair == InitWith(FairInputs)

(* ------------------------- process_zone locals ------------------------- *)
cap_units == PICKLIST_UNIT_CAP

WeightCap(f) == IF f THEN FRAGILE_WEIGHT_CAP ELSE PICKLIST_WEIGHT_CAP

cap_weight == WeightCap(fragile)

available_units == cap_units - cur_units

available_weight == FSub(cap_weight, cur_weight)

\* the quotient rounded up instead of truncated
MaxByWeightCeil(avail, w, rem) == IF w > 0 THEN (avail.g + w - 1) \div w ELSE rem

\* one unit fewer than fits
MaxByWeightShort(avail, w, rem) == IF w > 0 THEN FloorDiv(avail, w) - 1 ELSE rem

\* int(available_weight / unit_wt) if unit_wt > 0 else remaining
MaxByWeight(avail, w, rem) == IF w > 0 THEN FloorDiv(avail, w) ELSE rem

max_by_weight == MaxByWeight(available_weight, unit_wt, remaining)

Take(rem, au, mbw) == Min(Min(rem, au), mbw)

take == Take(remaining, available_units, max_by_weight)

\* available_units <= 0 or available_weight <= 0
BinFull(au, aw) == au <= 0 \/ FLeqZero(aw)

\* the row is taken as placed in full: the rest of its quantity is dropped
RemainingDropped(rem, t) == 0

\* remaining -= take
RemainingAfter(rem, t) == rem - t

\* the order is not registered
LoseOrder(os, o) == os

\* orders.add(row["_order"])
AddOrder(os, o) == os \cup {o}

\* f"{datetime.now().date()}_ZONE_{zone}_PL{pl_no}.csv"
FName(z, n) == <<Today, "_ZONE_", z, "_PL", n, ".csv">>

PickLine(r, t, w) ==
    [sku |-> r.sku, order_id |-> r.order, bin |-> r.bin, qty |-> t,
     unit_weight |-> w, fragile |-> r.fragile, ix |-> r.ix]

SummaryRow(z, f, n, units, weight, os, bs) ==
    [picklist_file |-> FName(z, n), zone |-> z, picklist_no |-> n,
     picklist_type |-> IF f THEN "fragile" ELSE "normal",
     total_units |-> units, total_weight |-> weight,
     distinct_orders |-> Cardinality(os), distinct_bins |-> Cardinality(bs)]

\* the guard is missing: an empty bin is flushed too
FlushesEmpty(its) == FALSE

\* `if not items: return`
NothingToFlush(its) == its = <<>>

\* flush()
Flush ==
    IF NothingToFlush(items)
    THEN UNCHANGED <<bin_state, out_state>>
    ELSE /\ pl_no' = pl_no + 1
         /\ total_picklists' = total_picklists + 1
         /\ written' = Append(written, [file |-> FName(zone, pl_no + 1), lines |-> items])
         /\ summary' = Append(summary,
                SummaryRow(zone, fragile, pl_no + 1, cur_units, cur_weight, orders, bins))
         /\ cur_units' = 0
         /\ cur_weight' = Flt(0, 0)
         /\ items' = <<>>
         /\ orders' = {}
         /\ bins' = {}

(* ------------------------------ actions -------------------------------- *)
\* generate_picklists up to the first process_zone call
Generate ==
    /\ pc = "start"
    /\ df' = SortValues(input)
    /\ pending' = GroupKeys(SortValues(input))
    /\ pc' = "zones"
    /\ UNCHANGED <<input, zone, fragile, rows, row, remaining, unit_wt,
                   bin_state, out_state, summary_csv>>

\* a call of process_zone, up to the for loop
ProcessZone ==
    /\ pc = "zones"
    /\ pending # <<>>
    /\ zone' = Head(pending).zone
    /\ fragile' = Head(pending).fragile
    /\ rows' = GroupRows(df, Head(pending).zone, Head(pending).fragile)
    /\ cur_units' = 0
    /\ cur_weight' = Flt(0, 0)
    /\ items' = <<>>
    /\ orders' = {}
    /\ bins' = {}
    /\ pl_no' = 0
    /\ row' = NoRow
    /\ remaining' = 0
    /\ unit_wt' = 0
    /\ pc' = "fill"
    /\ UNCHANGED <<input, df, pending, out_state, summary_csv>>

\* the for loop takes the next row of the group
NextRow ==
    /\ pc = "fill"
    /\ remaining <= 0
    /\ rows # <<>>
    /\ row' = Head(rows)
    /\ rows' = Tail(rows)
    /\ remaining' = Head(rows).qty
    /\ unit_wt' = Head(rows).weight
    /\ UNCHANGED <<input, pc, df, pending, zone, fragile, bin_state, out_state,
                   summary_csv>>

\* while iteration: no units or no weight left in the bin
FlushFull ==
    /\ pc = "fill"
    /\ remaining > 0
    /\ BinFull(available_units, available_weight)
    /\ Flush
    /\ UNCHANGED <<input, pc, df, pending, zone, fragile, rows, row, remaining,
                   unit_wt, summary_csv>>

\* while iteration: not one unit of the row fits
FlushNoTake ==
    /\ pc = "fill"
    /\ remaining > 0
    /\ ~BinFull(available_units, available_weight)
    /\ take <= 0
    /\ Flush
    /\ UNCHANGED <<input, pc, df, pending, zone, fragile, rows, row, remaining,
                   unit_wt, summary_csv>>

\* while iteration: take units of the row into the bin
Place ==
    /\ pc = "fill"
    /\ remaining > 0
    /\ ~BinFull(available_units, available_weight)
    /\ take > 0
    /\ items' = Append(items, PickLine(row, take, unit_wt))
    /\ cur_units' = cur_units + take
    /\ cur_weight' \in FAddMul(cur_weight, take, unit_wt)
    /\ orders' = AddOrder(orders, row.order)
    /\ bins' = bins \cup {row.bin}
    /\ remaining' = RemainingAfter(remaining, take)
    /\ pc' = IF FLeqTol(cur_weight', cap_weight) THEN "fill" ELSE "raised"
    /\ UNCHANGED <<input, df, pending, zone, fragile, rows, row, unit_wt, pl_no,
                   out_state, summary_csv>>

\* the flush() after the for loop; process_zone returns
EndZone ==
    /\ pc = "fill"
    /\ remaining <= 0
    /\ rows = <<>>
    /\ Flush
    /\ pending' = Tail(pending)
    /\ pc' = "zones"
    /\ UNCHANGED <<input, df, zone, fragile, rows, row, remaining, unit_wt,
                   summary_csv>>

\* pd.DataFrame(summary).to_csv(SUMMARY_CSV)
WriteSummary ==
    /\ pc = "zones"
    /\ pending = <<>>
    /\ summary_csv' = summary
    /\ pc' = "done"
    /\ UNCHANGED <<input, df, pending, zone, fragile, rows, row, remaining,
                   unit_wt, bin_state, out_state>>

Next ==
    \/ Generate
    \/ ProcessZone
    \/ NextRow
    \/ FlushFull
    \/ FlushNoTake
    \/ Place
    \/ EndZone
    \/ WriteSummary

Spec == Init /\ [][Next]_vars

SpecGroups == InitGroups /\ [][Next]_vars

\* the loops of one run execute without pause
FairSpec == InitFair /\ [][Next]_vars /\ WF_vars(Next)

TypeOK ==
    /\ pc \in {"start", "zones", "fill", "done", "raised"}
    /\ cur_units \in Nat
    /\ remaining \in Nat
    /\ pl_no \in Nat
    /\ Len(summary) = Len(written)

(* ------------------------- derived quantities -------------------------- *)
IsFragileRow(r) == r.picklist_type = "fragile"

RECURSIVE SumQty(_)
\* total qty of a sequence of pick lines
SumQty(ls) == IF ls = <<>> THEN 0 ELSE ls[1].qty + SumQty(Tail(ls))

\* the pick lines of payload ls that come from frame row ix
LinesOf(ls, ix) == SelectSeq(ls, LAMBDA l : l.ix = ix)

RECURSIVE AllLines(_)
\* the payloads of the to_csv calls ws, and after them the open bin
AllLines(ws) == IF ws = <<>> THEN <<>> ELSE ws[1].lines \o AllLines(Tail(ws))

PackedLines == AllLines(written) \o items

\* the current row, or a row still to come, cannot fit a fresh bin
Unpackable(r, f) == r.qty > 0 /\ r.weight > WeightCap(f)

AllPackable == \A i \in 1..Len(input) : ~Unpackable(input[i], input[i].fragile)

Picklist(k) ==
    [zone |-> summary[k].zone, fragile |-> IsFragileRow(summary[k]),
     no |-> summary[k].picklist_no, row |-> summary[k], lines |-> written[k].lines]

Emitted == 1..Len(summary)

SameStream(j, k) ==
    /\ summary[j].zone = summary[k].zone
    /\ summary[j].picklist_type = summary[k].picklist_type

\* the pick lines of the picklists of stream (z, f), in flush order
StreamLines(z, f) ==
    AllLines(SelectSeq([k \in Emitted |-> Picklist(k)],
                       LAMBDA p : p.zone = z /\ p.fragile = f))

\* frame row ix yields more than one pick line
IsSplit(ix) == Len(LinesOf(AllLines(written), ix)) > 1

(* ------------------------------- C2 ------------------------------------ *)
\* C2: when the run has finished, the qty of the pick lines derived from
\* each input row, over the picklists of its zone and fragility, sums to the
\* row's quantity, and a row of quantity 0 has no pick line.
Conservation ==
    pc = "done" =>
        \A i \in 1..Len(input) :
            LET own == LinesOf(StreamLines(input[i].zone, input[i].fragile), i)
            IN  /\ SumQty(own) = input[i].qty
                /\ SumQty(LinesOf(AllLines(written), i)) = input[i].qty
                /\ input[i].qty = 0 => LinesOf(AllLines(written), i) = <<>>

\* a finished run in which a row was split over picklists and a row had
\* quantity 0
ConservationWitness ==
    /\ pc = "done"
    /\ \E i \in 1..Len(input) : IsSplit(i)
    /\ \E i \in 1..Len(input) : input[i].qty = 0

(* ------------------------------- C3 ------------------------------------ *)
\* C3: a row with quantity left whose unit weight exceeds the weight cap of
\* its group puts the packer in the error state; it is never retried on an
\* empty bin.
UnpackableRaises ==
    (pc = "fill" /\ remaining > 0 /\ unit_wt > cap_weight /\ NothingToFlush(items))
        => FALSE

(* ------------------------------- C6 ------------------------------------ *)
\* C6: every emitted picklist has lines, total_units >= 1, distinct_orders
\* >= 1 and distinct_bins >= 1, and a step of the fill loop taken with an
\* empty open bin appends no summary row and leaves pl_no and
\* total_picklists alone.
NonEmptyRows ==
    /\ \A k \in Emitted :
          /\ written[k].lines # <<>>
          /\ summary[k].total_units >= 1
          /\ summary[k].distinct_orders >= 1
          /\ summary[k].distinct_bins >= 1
    /\ total_picklists = Len(summary)

EmptyFlushIsNoOp ==
    (pc = "fill" /\ items = <<>>) =>
        (pl_no' = pl_no /\ total_picklists' = total_picklists /\ summary' = summary
         /\ written' = written)

NonEmptiness == []NonEmptyRows /\ [][EmptyFlushIsNoOp]_vars

\* a zone whose rows all had quantity 0 ended on its empty open bin, after
\* an earlier zone had emitted a picklist
NonEmptinessWitness ==
    /\ pc = "zones"
    /\ row.ix > 0
    /\ row.qty = 0
    /\ pl_no = 0
    /\ Len(summary) >= 1

(* ------------------------------- C7 ------------------------------------ *)
\* evaluation.py: total_pl = len(df)
total_pl == Len(summary_csv)

RECURSIVE SumDistinctOrders(_)
SumDistinctOrders(rs) ==
    IF rs = <<>> THEN 0 ELSE rs[1].distinct_orders + SumDistinctOrders(Tail(rs))

\* evaluation.py: baseline_picklists = int(df["distinct_orders"].sum())
baseline_picklists == SumDistinctOrders(summary_csv)

NoSplitRun == \A i \in 1..Len(input) : ~IsSplit(i)

\* the sum over the (zone, fragility) groups of their distinct order ids
GroupOrderCount ==
    Cardinality({ <<input[i].zone, input[i].fragile, input[i].order>> :
                    i \in 1..Len(input) })

PositiveRows == { i \in 1..Len(input) : input[i].qty > 0 }

\* C7 as stated: in a finished run without a split row, the number of
\* picklists is at most the sum over the groups of their distinct order ids.
BaselineBoundByGroup ==
    (pc = "done" /\ NoSplitRun) => total_pl <= GroupOrderCount

\* C7 amended: in a finished run the number of picklists is at most the sum
\* over the picklists of distinct_orders, and without a split row at most
\* the number of rows of positive quantity.
BaselineBound ==
    pc = "done" =>
        /\ total_pl = total_picklists
        /\ total_pl <= baseline_picklists
        /\ NoSplitRun => total_pl <= Cardinality(PositiveRows)

\* a finished run without a split row, with more picklists than the groups
\* have distinct orders
BaselineWitness ==
    /\ pc = "done"
    /\ NoSplitRun
    /\ total_pl > GroupOrderCount

(* ------------------------------- C8 ------------------------------------ *)
\* weight capacity left in emitted picklist k
LeftWeight(k) == FSub(WeightCap(IsFragileRow(summary[k])), summary[k].total_weight)

\* picklist k is followed by another picklist of its stream
HasNext(k) == k + 1 \in Emitted /\ SameStream(k, k + 1)

EmittedOnce ==
    \A j, k \in Emitted :
        (SameStream(j, k) /\ summary[j].picklist_no = summary[k].picklist_no) => j = k

\* C8 as stated: every picklist but the last of its stream has total_units =
\* 2000 or less weight capacity left than the unit weight of the first pick
\* line of the next picklist of the stream, and each picklist is emitted once.
SealedOnExhaustionStated ==
    /\ \A k \in Emitted :
          HasNext(k) =>
              \/ summary[k].total_units = PICKLIST_UNIT_CAP
              \/ FLess(LeftWeight(k), written[k + 1].lines[1].unit_weight)
    /\ EmittedOnce

\* C8 amended: every picklist but the last of its stream has total_units =
\* 2000, or no weight capacity left (cap - total_weight <= 0), or less weight
\* capacity left than the unit weight of the first pick line of the next
\* picklist of the stream; and each picklist is emitted once.
SealedOnExhaustion ==
    /\ \A k \in Emitted :
          HasNext(k) =>
              \/ summary[k].total_units = PICKLIST_UNIT_CAP
              \/ FLeqZero(LeftWeight(k))
              \/ FLess(LeftWeight(k), written[k + 1].lines[1].unit_weight)
    /\ EmittedOnce

\* a stream whose first picklist was sealed with units and weight to spare
\* because the next row did not fit
SealedWitness ==
    \E k \in Emitted :
        /\ HasNext(k)
        /\ summary[k].total_units < PICKLIST_UNIT_CAP
        /\ ~FLeqZero(LeftWeight(k))
        /\ LeftWeight(k).g > 0

(* ------------------------------- C9 ------------------------------------ *)
\* a while iteration on an empty bin with a row that fits a bin places a unit
FreshBinPlaces ==
    (pc = "fill" /\ remaining > 0 /\ items = <<>> /\ unit_wt <= cap_weight)
        => (Len(items') = 1 /\ remaining' < remaining)

\* C9: when no row of positive quantity has a unit weight above the cap of
\* its group, the run ends: every row's remaining quantity reaches 0, every
\* group is flushed and Summary.csv is written; and a retry on a freshly
\* opened bin places at least one unit.
Termination ==
    /\ AllPackable => <>(pc = "done" /\ remaining = 0 /\ items = <<>> /\ pending = <<>>)
    /\ [][FreshBinPlaces]_vars

\* a finished run of packable rows that flushed a bin and retried the row
TerminationWitness ==
    /\ pc = "done"
    /\ AllPackable
    /\ \E i \in 1..Len(input) : IsSplit(i)
    /\ \E k \in Emitted : summary[k].total_weight.g > 0 /\ HasNext(k)

(* ------------------------------- C4 ------------------------------------ *)
\* C4: every pick line of an emitted picklist comes from a row whose zone is
\* the picklist's zone and whose fragile flag is the picklist's type.
NoCrossContamination ==
    \A k \in Emitted :
        \A n \in 1..Len(written[k].lines) :
            LET l == written[k].lines[n]
            IN  /\ input[l.ix].zone = summary[k].zone
                /\ input[l.ix].fragile = IsFragileRow(summary[k])
                /\ l.fragile = IsFragileRow(summary[k])

\* a finished run with a normal and a fragile picklist of the same zone
ContaminationWitness ==
    /\ pc = "done"
    /\ \E j, k \in Emitted :
          /\ summary[j].zone = summary[k].zone
          /\ summary[j].picklist_type = "normal"
          /\ summary[k].picklist_type = "fragile"

(* ------------------------------- C5 ------------------------------------ *)
\* the files in ./picklists
PicklistFiles == { written[k].file : k \in 1..Len(written) }

\* C5: no two summary rows carry the same picklist_file, and there are as
\* many picklist files as summary rows.
OneCsvPerPicklist ==
    /\ \A j, k \in Emitted :
          summary[j].picklist_file = summary[k].picklist_file => j = k
    /\ Cardinality(PicklistFiles) = Len(summary)

(* ------------------------------- C10 ----------------------------------- *)
\* row a is more urgent than row b: cutoff, then priority, then order id
MoreUrgent(a, b) ==
    \/ a.cutoff < b.cutoff
    \/ a.cutoff = b.cutoff /\ a.priority < b.priority
    \/ a.cutoff = b.cutoff /\ a.priority = b.priority /\ a.order < b.order

Holds(k, i) == LinesOf(written[k].lines, i) # <<>>

\* C10: within a stream, every picklist holding a pick line of a row has a
\* picklist_no at most that of every picklist holding a pick line of a less
\* urgent row, and the pick lines of the stream's picklists, in picklist
\* order, never list a row before a more urgent one.
UrgencyOrder ==
    /\ \A a, b \in 1..Len(input) :
          (/\ input[a].zone = input[b].zone
           /\ input[a].fragile = input[b].fragile
           /\ MoreUrgent(input[a], input[b]))
          => \A j, k \in Emitted :
                 (Holds(j, a) /\ Holds(k, b)) => summary[j].picklist_no <= summary[k].picklist_no
    /\ \A z \in Zones : \A f \in BOOLEAN :
          LET ls == StreamLines(z, f)
          IN  \A n \in 1..(Len(ls) - 1) : ~MoreUrgent(input[ls[n + 1].ix], input[ls[n].ix])

\* a finished run where the more urgent of two rows of a stream came second
\* in the input and the two rows are in different picklists
UrgencyWitness ==
    /\ pc = "done"
    /\ \E a, b \in 1..Len(input) :
          /\ a > b
          /\ input[a].zone = input[b].zone
          /\ input[a].fragile = input[b].fragile
          /\ MoreUrgent(input[a], input[b])
          /\ \E j, k \in Emitted : Holds(j, a) /\ Holds(k, b) /\ j < k

====
